---- MODULE Spec2Model ----
(***************************************************************************)
(* Hill cipher engine of src/cipher.py (class HillCipher).                 *)
(*                                                                         *)
(* Characters are Unicode code points (the values of ord()), strings are   *)
(* sequences of code points, matrices are sequences of rows.  Python's     *)
(* Optional[T] is a sequence of length at most one: None is <<>> and a     *)
(* returned value v is <<v>>.                                              *)
(*                                                                         *)
(* np.linalg.det followed by np.round, and np.linalg.inv(matrix) * det     *)
(* followed by np.round, are taken at the exact integer value: for the     *)
(* integer matrices of the sizes and entries explored here the floating    *)
(* point error is far below 1/2.                                           *)
(***************************************************************************)
EXTENDS Integers, Sequences, FiniteSets, TLC

VARIABLES op, key, text, num, plain, out, gen, self, heap, calls

vars == <<op, key, text, num, plain, out, gen, self, heap, calls>>

\* the state of the calls that run on their own threads
conc == <<self, heap, calls>>

-----------------------------------------------------------------------------
(* Bounds of the exploration *)

MaxLen == 4

MaxEntry2 == 5

MaxEntry3 == 1

MaxAbsA == 30

MaxNums == 2

MaxGcd == 12

\* samples of an unbounded sampling loop that are followed
MaxDraws == 101

-----------------------------------------------------------------------------
(* Python values *)

None == <<>>

Some(v) == <<v>>

alphabet_size == 26

OrdA == 65

OrdX == 88

OrdSpace == 32

Min(a, b) == IF a < b THEN a ELSE b

\* Python's // : floor division, also for a negative divisor
PyFloorDiv(x, y) == IF y > 0 THEN x \div y ELSE (0 - x) \div (0 - y)

\* Python's % : the result has the sign of the divisor
PyMod(x, y) == x - y * PyFloorDiv(x, y)

\* s[i:j] for 0 <= i <= j
PySlice(s, i, j) == SubSeq(s, i + 1, Min(j, Len(s)))

\* str.upper() of one character (Latin-1 letters other than 181, 223, 255)
UpperChar(c) ==
    IF c \in 97..122 THEN c - 32
    ELSE IF c \in 224..254 /\ c # 247 THEN c - 32
    ELSE c

\* str.isalpha() of one character (Latin-1)
IsAlpha(c) ==
    \/ c \in 65..90
    \/ c \in 97..122
    \/ c \in {170, 181, 186}
    \/ c \in 192..214
    \/ c \in 216..246
    \/ c \in 248..255

\* math.gcd on non-negative integers
RECURSIVE MathGcd(_, _)
MathGcd(a, b) == IF b = 0 THEN a ELSE MathGcd(b, a % b)

-----------------------------------------------------------------------------
(* TextCodec *)

\* variant: the letters are numbered from 1
text_to_numbers_OneBased(t) ==
    LET upper   == [i \in 1..Len(t) |-> UpperChar(t[i])]
        nospace == SelectSeq(upper, LAMBDA c : c # OrdSpace)
        alpha   == SelectSeq(nospace, IsAlpha)
    IN  [i \in 1..Len(alpha) |-> alpha[i] - OrdA + 1]

text_to_numbers(t) ==
    LET upper   == [i \in 1..Len(t) |-> UpperChar(t[i])]
        nospace == SelectSeq(upper, LAMBDA c : c # OrdSpace)
        alpha   == SelectSeq(nospace, IsAlpha)
    IN  [i \in 1..Len(alpha) |-> alpha[i] - OrdA]

numbers_to_text(numbers) == [i \in 1..Len(numbers) |-> numbers[i] + OrdA]

\* variant: a text that is already a multiple gets a whole block of 'X'
pad_text_AlwaysPads(t, block_size) ==
    t \o [i \in 1..(block_size - (Len(t) % block_size)) |-> OrdX]

RECURSIVE pad_text(_, _)
pad_text(t, block_size) ==
    IF Len(t) % block_size # 0
    THEN pad_text(Append(t, OrdX), block_size)
    ELSE t

RECURSIVE BlocksFrom(_, _, _)
BlocksFrom(numbers, block_size, i) ==
    IF i >= Len(numbers) THEN <<>>
    ELSE LET block == PySlice(numbers, i, i + block_size)
         IN  (IF Len(block) = block_size THEN <<block>> ELSE <<>>)
             \o BlocksFrom(numbers, block_size, i + block_size)

create_text_blocks(numbers, block_size) == BlocksFrom(numbers, block_size, 0)

-----------------------------------------------------------------------------
(* ExtendedEuclid *)

\* variant: y keeps y1 of the inner call instead of taking x1
RECURSIVE gcd_extended_YKept(_, _)
gcd_extended_YKept(a, b) ==
    IF a = 0 THEN <<b, 0, 1>>
    ELSE LET r == gcd_extended_YKept(PyMod(b, a), a)
         IN  <<r[1], r[3] - PyFloorDiv(b, a) * r[2], r[3]>>

RECURSIVE gcd_extended(_, _)
gcd_extended(a, b) ==
    IF a = 0 THEN <<b, 0, 1>>
    ELSE LET r == gcd_extended(PyMod(b, a), a)
         IN  <<r[1], r[3] - PyFloorDiv(b, a) * r[2], r[2]>>

\* the number of calls of gcd_extended that gcd_extended(a, b) makes
RECURSIVE gcd_extended_calls(_, _)
gcd_extended_calls(a, b) ==
    IF a = 0 THEN 1 ELSE 1 + gcd_extended_calls(PyMod(b, a), a)

mod_inverse(a, m) ==
    LET r == gcd_extended(a, m)
    IN  IF r[1] # 1 THEN None ELSE Some(((r[2] % m) + m) % m)

-----------------------------------------------------------------------------
(* ModularMatrix *)

\* matrix.shape[0] and matrix.shape[1]
Shape0(M) == Len(M)

Shape1(M) == Len(M[1])

RECURSIVE SumTo(_, _)
SumTo(f, n) == IF n = 0 THEN 0 ELSE f[n] + SumTo(f, n - 1)

DropAt(s, k) == [i \in 1..(Len(s) - 1) |-> IF i < k THEN s[i] ELSE s[i + 1]]

Minor(M, r, c) == [i \in 1..(Len(M) - 1) |-> DropAt(DropAt(M, r)[i], c)]

Sign(k) == IF k % 2 = 0 THEN 1 ELSE 0 - 1

\* int(np.round(np.linalg.det(M))): the integer determinant
RECURSIVE Det(_)
Det(M) ==
    IF Len(M) = 1 THEN M[1][1]
    ELSE SumTo([j \in 1..Len(M) |-> Sign(1 + j) * M[1][j] * Det(Minor(M, 1, j))],
               Len(M))

\* np.round(np.linalg.inv(M) * det): the transposed matrix of cofactors
Adjugate(M) ==
    [i \in 1..Len(M) |-> [j \in 1..Len(M) |-> Sign(i + j) * Det(Minor(M, j, i))]]

\* variant: the block is multiplied by the transposed matrix
DotMod_Transposed(A, block) ==
    [i \in 1..Len(A) |->
        SumTo([j \in 1..Len(block) |-> A[j][i] * block[j]], Len(block))
            % alphabet_size]

\* np.dot(A, block) % alphabet_size for an n x 1 column block
DotMod(A, block) ==
    [i \in 1..Len(A) |->
        SumTo([j \in 1..Len(block) |-> A[i][j] * block[j]], Len(block))
            % alphabet_size]

\* np.dot(A, B) % 26 for two square matrices
MatMulMod(A, B) ==
    [i \in 1..Len(A) |-> [j \in 1..Len(A) |->
        SumTo([k \in 1..Len(A) |-> A[i][k] * B[k][j]], Len(A)) % 26]]

\* np.eye(n, dtype=int)
Eye(n) == [i \in 1..n |-> [j \in 1..n |-> IF i = j THEN 1 ELSE 0]]

\* variant: the 2x2 adjugate keeps the diagonal in place
matrix_mod_inverse_DiagonalKept(matrix) ==
    LET det     == Det(matrix)
        det_inv == mod_inverse(det, alphabet_size)
    IN  IF det_inv = None THEN None
        ELSE LET adj == IF Shape0(matrix) = 2
                        THEN << <<matrix[1][1], 0 - matrix[1][2]>>,
                                <<0 - matrix[2][1], matrix[2][2]>> >>
                        ELSE Adjugate(matrix)
             IN  Some([i \in 1..Len(adj) |-> [j \in 1..Len(adj) |->
                         (det_inv[1] * adj[i][j]) % alphabet_size]])

matrix_mod_inverse(matrix) ==
    LET det     == Det(matrix)
        det_inv == mod_inverse(det, alphabet_size)
    IN  IF det_inv = None THEN None
        ELSE LET adj == IF Shape0(matrix) = 2
                        THEN << <<matrix[2][2], 0 - matrix[1][2]>>,
                                <<0 - matrix[2][1], matrix[1][1]>> >>
                        ELSE Adjugate(matrix)
             IN  Some([i \in 1..Len(adj) |-> [j \in 1..Len(adj) |->
                         (det_inv[1] * adj[i][j]) % alphabet_size]])

-----------------------------------------------------------------------------
(* KeyValidator *)

\* variant: any determinant that is not 0 mod 26 is accepted
is_valid_key_matrix_NonZero(key_matrix) ==
    IF Shape0(key_matrix) # Shape1(key_matrix) THEN FALSE
    ELSE LET det     == Det(key_matrix)
             det_mod == det % alphabet_size
         IN  det_mod # 0

\* variant: the shape test answers True
is_valid_key_matrix_NonSquareAccepted(key_matrix) ==
    IF Shape0(key_matrix) # Shape1(key_matrix) THEN TRUE
    ELSE LET det     == Det(key_matrix)
             det_mod == det % alphabet_size
         IN  MathGcd(det_mod, alphabet_size) = 1

is_valid_key_matrix(key_matrix) ==
    IF Shape0(key_matrix) # Shape1(key_matrix) THEN FALSE
    ELSE LET det     == Det(key_matrix)
             det_mod == det % alphabet_size
         IN  MathGcd(det_mod, alphabet_size) = 1

-----------------------------------------------------------------------------
(* CipherEngine *)

InvalidKeyMsg == "Invalid key matrix: not invertible mod 26"

NoInverseMsg == "Cannot find inverse of key matrix"

RECURSIVE Flatten(_)
Flatten(blocks) ==
    IF blocks = <<>> THEN <<>> ELSE Head(blocks) \o Flatten(Tail(blocks))

\* raise ValueError(msg): nothing is returned
Raise(msg) ==
    [raised |-> msg, returned |-> FALSE, text |-> <<>>, padded_text |-> <<>>,
     text_numbers |-> <<>>, key_matrix |-> None, inverse_key_matrix |-> None,
     blocks |-> <<>>, out_blocks |-> <<>>, final_numbers |-> <<>>]

\* the alphabetic characters of a string
LettersOnly(t) == SelectSeq(t, IsAlpha)

\* variant: the key is not validated
encrypt_Unchecked(plaintext, key_matrix) ==
    LET block_size        == Shape0(key_matrix)
        padded            == pad_text(plaintext, block_size)
        numbers           == text_to_numbers(padded)
        blocks            == create_text_blocks(numbers, block_size)
        encrypted_blocks  == [i \in 1..Len(blocks) |->
                                DotMod(key_matrix, blocks[i])]
        encrypted_numbers == Flatten(encrypted_blocks)
    IN  [raised |-> "", returned |-> TRUE,
         text |-> numbers_to_text(encrypted_numbers),
         padded_text |-> padded, text_numbers |-> numbers,
         key_matrix |-> Some(key_matrix), inverse_key_matrix |-> None,
         blocks |-> blocks, out_blocks |-> encrypted_blocks,
         final_numbers |-> encrypted_numbers]

encrypt(plaintext, key_matrix) ==
    IF ~ is_valid_key_matrix(key_matrix) THEN Raise(InvalidKeyMsg)
    ELSE LET block_size        == Shape0(key_matrix)
             padded            == pad_text(plaintext, block_size)
             numbers           == text_to_numbers(padded)
             blocks            == create_text_blocks(numbers, block_size)
             encrypted_blocks  == [i \in 1..Len(blocks) |->
                                     DotMod(key_matrix, blocks[i])]
             encrypted_numbers == Flatten(encrypted_blocks)
         IN  [raised |-> "", returned |-> TRUE,
              text |-> numbers_to_text(encrypted_numbers),
              padded_text |-> padded, text_numbers |-> numbers,
              key_matrix |-> Some(key_matrix), inverse_key_matrix |-> None,
              blocks |-> blocks, out_blocks |-> encrypted_blocks,
              final_numbers |-> encrypted_numbers]

\* variant: the ciphertext is padded as encrypt pads the plaintext
decrypt_Padded(ciphertext, key_matrix) ==
    IF ~ is_valid_key_matrix(key_matrix) THEN Raise(InvalidKeyMsg)
    ELSE LET inv_key_matrix == matrix_mod_inverse(key_matrix)
         IN  IF inv_key_matrix = None THEN Raise(NoInverseMsg)
             ELSE LET block_size        == Shape0(key_matrix)
                      numbers           == text_to_numbers(
                                              pad_text(LettersOnly(ciphertext), block_size))
                      blocks            == create_text_blocks(numbers, block_size)
                      decrypted_blocks  == [i \in 1..Len(blocks) |->
                                              DotMod(inv_key_matrix[1], blocks[i])]
                      decrypted_numbers == Flatten(decrypted_blocks)
                  IN  [raised |-> "", returned |-> TRUE,
                       text |-> numbers_to_text(decrypted_numbers),
                       padded_text |-> <<>>, text_numbers |-> numbers,
                       key_matrix |-> Some(key_matrix),
                       inverse_key_matrix |-> inv_key_matrix,
                       blocks |-> blocks, out_blocks |-> decrypted_blocks,
                       final_numbers |-> decrypted_numbers]

decrypt(ciphertext, key_matrix) ==
    IF ~ is_valid_key_matrix(key_matrix) THEN Raise(InvalidKeyMsg)
    ELSE LET inv_key_matrix == matrix_mod_inverse(key_matrix)
         IN  IF inv_key_matrix = None THEN Raise(NoInverseMsg)
             ELSE LET block_size        == Shape0(key_matrix)
                      numbers           == text_to_numbers(ciphertext)
                      blocks            == create_text_blocks(numbers, block_size)
                      decrypted_blocks  == [i \in 1..Len(blocks) |->
                                              DotMod(inv_key_matrix[1], blocks[i])]
                      decrypted_numbers == Flatten(decrypted_blocks)
                  IN  [raised |-> "", returned |-> TRUE,
                       text |-> numbers_to_text(decrypted_numbers),
                       padded_text |-> <<>>, text_numbers |-> numbers,
                       key_matrix |-> Some(key_matrix),
                       inverse_key_matrix |-> inv_key_matrix,
                       blocks |-> blocks, out_blocks |-> decrypted_blocks,
                       final_numbers |-> decrypted_numbers]

max_attempts == 100

\* variant: the larger fallback sets matrix[0, 0] = 2
FallbackKey_Even(size) ==
    IF size = 2 THEN << <<3, 2>>, <<5, 7>> >>
    ELSE IF size = 3 THEN << <<6, 24, 1>>, <<13, 16, 10>>, <<20, 17, 15>> >>
    ELSE [i \in 1..size |-> [j \in 1..size |->
             IF i = 1 /\ j = 1 THEN 2
             ELSE IF i = 2 /\ j = 2 THEN 5
             ELSE Eye(size)[i][j]]]

\* variant: the larger fallback is the identity left unmodified
FallbackKey_PlainIdentity(size) ==
    IF size = 2 THEN << <<3, 2>>, <<5, 7>> >>
    ELSE IF size = 3 THEN << <<6, 24, 1>>, <<13, 16, 10>>, <<20, 17, 15>> >>
    ELSE Eye(size)

\* the matrix returned when every sample was invalid
FallbackKey(size) ==
    IF size = 2 THEN << <<3, 2>>, <<5, 7>> >>
    ELSE IF size = 3 THEN << <<6, 24, 1>>, <<13, 16, 10>>, <<20, 17, 15>> >>
    ELSE [i \in 1..size |-> [j \in 1..size |->
             IF i = 1 /\ j = 1 THEN 3
             ELSE IF i = 2 /\ j = 2 THEN 5
             ELSE Eye(size)[i][j]]]

-----------------------------------------------------------------------------
(* Inputs *)

\* ' ', '1', 'A', 'X', 'h', e-acute
Chars == {32, 49, 65, 88, 104, 233}

Strings == UNION {[1..n -> Chars] : n \in 0..MaxLen}

\* the texts given to encrypt and decrypt: ASCII only
TextChars == Chars \ {233}

TextStrings == UNION {[1..n -> TextChars] : n \in 0..MaxLen}

\* "HELLO"
Hello == <<72, 69, 76, 76, 79>>

PlainTexts == TextStrings \cup {Hello}

Keys2 == {<< <<a, b>>, <<c, d>> >> : a \in 0..MaxEntry2, b \in 0..MaxEntry2,
                                     c \in 0..MaxEntry2, d \in 0..MaxEntry2}

Rows3 == {<<a, b, c>> : a \in 0..MaxEntry3, b \in 0..MaxEntry3, c \in 0..MaxEntry3}

Keys3 == {<<r1, r2, r3>> : r1 \in Rows3, r2 \in Rows3, r3 \in Rows3}

Key2Demo == << <<3, 2>>, <<5, 7>> >>

Key2Long == << <<9, 4>>, <<5, 7>> >>

Key2Even == << <<2, 4>>, <<6, 8>> >>

Key2Neg == << <<2, 3>>, <<1, 1>> >>

Key3Demo == << <<6, 24, 1>>, <<13, 16, 10>>, <<20, 17, 15>> >>

Key3Even == << <<2, 0, 0>>, <<0, 1, 0>>, <<0, 0, 1>> >>

Key3Neg == << <<0, 1, 0>>, <<1, 0, 0>>, <<0, 0, 1>> >>

Key4Bad == << <<2, 0, 0, 0>>, <<0, 1, 0, 0>>, <<0, 0, 1, 0>>, <<0, 0, 0, 1>> >>

Key4Good == << <<1, 2, 0, 0>>, <<0, 1, 0, 3>>, <<4, 0, 1, 0>>, <<0, 0, 5, 1>> >>

Key5Bad == [i \in 1..5 |-> [j \in 1..5 |-> IF i = j THEN (IF i = 1 THEN 2 ELSE 1) ELSE 0]]

NonSquare23 == << <<1, 2, 3>>, <<4, 5, 6>> >>

NonSquare32 == << <<1, 2>>, <<3, 4>>, <<5, 6>> >>

SquareKeys ==
    Keys2 \cup Keys3 \cup {Key2Demo, Key2Long, Key2Even, Key2Neg, Key3Demo,
                           Key3Even, Key3Neg, Key4Bad, Key4Good, FallbackKey(4)}

\* r x c matrices, r # c, with entries 0..MaxEntry3
Rect(r, c) == [1..r -> [1..c -> 0..MaxEntry3]]

NonSquareKeys == Rect(1, 2) \cup Rect(2, 1) \cup Rect(2, 3) \cup Rect(3, 2)

AllKeys == SquareKeys \cup NonSquareKeys \cup {NonSquare23, NonSquare32}

TextKeys == {Key2Demo, Key2Long, Key2Even, Key2Neg, Key3Demo, Key3Even,
             Key3Neg, NonSquare23}

\* outcomes of np.random.randint(0, 26, (size, size)) that are explored
Samples(size) ==
    IF size = 2 THEN {Key2Demo, Key2Long, Key2Even, Key2Neg}
    ELSE IF size = 3 THEN {Key3Demo, Key3Even, Key3Neg}
    ELSE IF size = 4 THEN {Key4Bad, Key4Good}
    ELSE {Key5Bad, Eye(5)}

Sizes == {2, 3, 4, 5}

\* integers given to numbers_to_text: in range, just out of range, far out
CodeInputs == {0 - 66, 0 - 1, 0, 25, 26, 30}

NumberLists == UNION {[1..n -> CodeInputs] : n \in 0..MaxNums}

-----------------------------------------------------------------------------
(* State machine: one call of the engine at a time *)

GenIdle == [pc |-> "idle", size |-> 0, attempts |-> 0, result |-> None]

NoOut == [raised |-> ""]

\* HillCipher(): the fields set by __init__
NewObject ==
    [alphabet_size |-> alphabet_size, alphabet |-> "ABCDEFGHIJKLMNOPQRSTUVWXYZ"]

\* the threads that call methods of the one object
Threads == {1, 2}

\* the local variables of a call that has not started
IdleFrame ==
    [pc |-> "idle", method |-> "", text |-> <<>>, key |-> None,
     inv |-> None, padded |-> <<>>, text_numbers |-> <<>>, blocks |-> <<>>,
     i |-> 0, out_blocks |-> <<>>, numbers |-> <<>>, out |-> NoOut]

Init ==
    /\ op = "none"
    /\ key = None
    /\ text = <<>>
    /\ num = 0
    /\ plain = None
    /\ out = NoOut
    /\ gen = GenIdle
    /\ self = NewObject
    /\ heap = [t \in Threads |-> None]
    /\ calls = [t \in Threads |-> IdleFrame]

\* no call is in progress: the engine is single-threaded and keeps no state
Idle == op = "none"

CallIsValid(M) ==
    /\ Idle
    /\ op' = "is_valid_key_matrix"
    /\ key' = Some(M)
    /\ out' = [raised |-> "", value |-> is_valid_key_matrix(M)]
    /\ text' = <<>> /\ num' = 0 /\ plain' = None /\ gen' = GenIdle
    /\ UNCHANGED conc

CallMatrixModInverse(M) ==
    /\ Idle
    /\ op' = "matrix_mod_inverse"
    /\ key' = Some(M)
    /\ out' = [raised |-> "", value |-> matrix_mod_inverse(M)]
    /\ text' = <<>> /\ num' = 0 /\ plain' = None /\ gen' = GenIdle
    /\ UNCHANGED conc

CallModInverse(a) ==
    /\ Idle
    /\ op' = "mod_inverse"
    /\ num' = a
    /\ out' = [raised |-> "", value |-> mod_inverse(a, alphabet_size)]
    /\ key' = None /\ text' = <<>> /\ plain' = None /\ gen' = GenIdle
    /\ UNCHANGED conc

\* gcd_extended(a, b); text holds the two arguments
CallGcdExtended(a, b) ==
    /\ Idle
    /\ op' = "gcd_extended"
    /\ text' = <<a, b>>
    /\ out' = [raised |-> "", value |-> gcd_extended(a, b),
               calls |-> gcd_extended_calls(a, b)]
    /\ key' = None /\ num' = 0 /\ plain' = None /\ gen' = GenIdle
    /\ UNCHANGED conc

CallTextToNumbers(s) ==
    /\ Idle
    /\ op' = "text_to_numbers"
    /\ text' = s
    /\ out' = [raised |-> "", value |-> text_to_numbers(s)]
    /\ key' = None /\ num' = 0 /\ plain' = None /\ gen' = GenIdle
    /\ UNCHANGED conc

\* chr(i) raises ValueError for i outside range(0x110000)
ChrRaises(numbers) ==
    \E i \in 1..Len(numbers) :
        numbers[i] + OrdA < 0 \/ numbers[i] + OrdA > 1114111

ChrErrorMsg == "chr() arg not in range(0x110000)"

CallNumbersToText(numbers) ==
    /\ Idle
    /\ op' = "numbers_to_text"
    /\ text' = numbers
    /\ out' = IF ChrRaises(numbers)
              THEN [raised |-> ChrErrorMsg, value |-> <<>>]
              ELSE [raised |-> "", value |-> numbers_to_text(numbers)]
    /\ key' = None /\ num' = 0 /\ plain' = None /\ gen' = GenIdle
    /\ UNCHANGED conc

CallEncrypt(s, K) ==
    /\ Idle
    /\ op' = "encrypt"
    /\ text' = s
    /\ key' = Some(K)
    /\ out' = encrypt(s, K)
    /\ num' = 0 /\ plain' = None /\ gen' = GenIdle
    /\ UNCHANGED conc

CallDecrypt(c, K) ==
    /\ Idle
    /\ op' = "decrypt"
    /\ text' = c
    /\ key' = Some(K)
    /\ out' = decrypt(c, K)
    /\ num' = 0 /\ plain' = None /\ gen' = GenIdle
    /\ UNCHANGED conc

\* decrypt(ciphertext, key_matrix) right after encrypt(plaintext, key_matrix)
DecryptCiphertext ==
    /\ op = "encrypt"
    /\ out.returned
    /\ op' = "decrypt"
    /\ text' = out.text
    /\ plain' = Some(text)
    /\ out' = decrypt(out.text, key[1])
    /\ UNCHANGED <<key, num, gen>>
    /\ UNCHANGED conc

GenStart(size) ==
    /\ Idle
    /\ op' = "generate_random_key_matrix"
    /\ gen' = [pc |-> "loop", size |-> size, attempts |-> 0, result |-> None]
    /\ out' = NoOut
    /\ key' = None /\ text' = <<>> /\ num' = 0 /\ plain' = None
    /\ UNCHANGED conc

\* variant: the loop samples until a matrix is valid, with no bound
GenAttempt_Unbounded(M) ==
    /\ gen.pc = "loop"
    /\ IF is_valid_key_matrix(M)
       THEN gen' = [gen EXCEPT !.pc = "done", !.attempts = @ + 1,
                               !.result = Some(M)]
       ELSE gen' = [gen EXCEPT !.attempts = @ + 1]
    /\ UNCHANGED <<op, key, text, num, plain, out>>
    /\ UNCHANGED conc

\* one iteration of the sampling loop
GenAttempt(M) ==
    /\ gen.pc = "loop"
    /\ gen.attempts < max_attempts
    /\ IF is_valid_key_matrix(M)
       THEN gen' = [gen EXCEPT !.pc = "done", !.attempts = @ + 1,
                               !.result = Some(M)]
       ELSE gen' = [gen EXCEPT !.attempts = @ + 1]
    /\ UNCHANGED <<op, key, text, num, plain, out>>
    /\ UNCHANGED conc

GenFallback ==
    /\ gen.pc = "loop"
    /\ gen.attempts = max_attempts
    /\ gen' = [gen EXCEPT !.pc = "done", !.result = Some(FallbackKey(gen.size))]
    /\ UNCHANGED <<op, key, text, num, plain, out>>
    /\ UNCHANGED conc

\* the call returns to its caller; nothing of it is kept
Return ==
    /\ op # "none"
    /\ gen.pc # "loop"
    /\ op' = "none"
    /\ key' = None /\ text' = <<>> /\ num' = 0 /\ plain' = None
    /\ out' = NoOut /\ gen' = GenIdle
    /\ UNCHANGED conc

Next ==
    \/ Idle /\ \E M \in AllKeys : CallIsValid(M)
    \/ Idle /\ \E M \in SquareKeys : CallMatrixModInverse(M)
    \/ Idle /\ \E a \in (0 - MaxAbsA)..MaxAbsA : CallModInverse(a)
    \/ Idle /\ \E a \in 0..MaxGcd, b \in 0..MaxGcd : CallGcdExtended(a, b)
    \/ Idle /\ \E s \in Strings : CallTextToNumbers(s)
    \/ Idle /\ \E numbers \in NumberLists : CallNumbersToText(numbers)
    \/ Idle /\ \E s \in PlainTexts, K \in TextKeys : CallEncrypt(s, K)
    \/ Idle /\ \E c \in TextStrings, K \in TextKeys : CallDecrypt(c, K)
    \/ DecryptCiphertext
    \/ Idle /\ \E size \in Sizes : GenStart(size)
    \/ gen.pc = "loop" /\ \E M \in Samples(gen.size) : GenAttempt(M)
    \/ GenFallback
    \/ Return

Spec == Init /\ [][Next]_vars

\* the sizes asked of generate_random_key_matrix when it is run alone
GenSizes == {2, 3}

\* generate_random_key_matrix alone; once called, its loop runs to its end:
\* the loop body has no blocking statement, so a started call keeps stepping
GenStep == (\E M \in Samples(gen.size) : GenAttempt(M)) \/ GenFallback

GenNext ==
    \/ Idle /\ \E size \in GenSizes : GenStart(size)
    \/ gen.pc = "loop" /\ \E M \in Samples(gen.size) : GenAttempt(M)
    \/ GenFallback
    \/ Return

GenSpec == Init /\ [][GenNext]_vars /\ WF_vars(GenStep)

-----------------------------------------------------------------------------
(* Two threads calling is_valid_key_matrix, encrypt and decrypt of the one  *)
(* object.  A call is run statement group by statement group; between two  *)
(* groups the other thread may run.  heap[t] is the array object the caller *)
(* of thread t passed as key_matrix; calls[t] holds the call's locals.      *)

seq == <<op, key, text, num, plain, out, gen>>

Methods == {"is_valid_key_matrix", "encrypt", "decrypt"}

\* the keys and texts of the two callers: no key and no text in common
ConcKeys(t) ==
    IF t = 1 THEN {Key2Demo, Key2Neg, Key2Even}
    ELSE {Key3Demo, Key2Long, NonSquare23}

\* "HI", "HELLO" and "A Xh", "XAXAXA"
ConcTexts(t) ==
    IF t = 1 THEN {<<72, 73>>, Hello}
    ELSE {<<65, 32, 88, 104>>, <<88, 65, 88, 65, 88, 65>>}

ConcCall(t, method, s, K) ==
    /\ calls[t].pc = "idle"
    /\ calls' = [calls EXCEPT ![t] =
                    [IdleFrame EXCEPT !.pc = "validate", !.method = method,
                                      !.text = IF method = "is_valid_key_matrix"
                                               THEN <<>> ELSE s,
                                      !.key = Some(K)]]
    /\ heap' = [heap EXCEPT ![t] = Some(K)]
    /\ UNCHANGED <<self, seq>>

\* is_valid_key_matrix itself, or the test that opens encrypt and decrypt
ConcValidate(t) ==
    /\ calls[t].pc = "validate"
    /\ LET c  == calls[t]
           ok == is_valid_key_matrix(heap[t][1])
       IN  calls' = [calls EXCEPT ![t] =
               IF c.method = "is_valid_key_matrix"
               THEN [c EXCEPT !.pc = "done",
                              !.out = [raised |-> "", value |-> ok]]
               ELSE IF ~ ok
               THEN [c EXCEPT !.pc = "done", !.out = Raise(InvalidKeyMsg)]
               ELSE IF c.method = "decrypt"
               THEN [c EXCEPT !.pc = "invert"]
               ELSE [c EXCEPT !.pc = "prepare"]]
    /\ UNCHANGED <<self, heap, seq>>

ConcInvert(t) ==
    /\ calls[t].pc = "invert"
    /\ LET c              == calls[t]
           inv_key_matrix == matrix_mod_inverse(heap[t][1])
       IN  calls' = [calls EXCEPT ![t] =
               IF inv_key_matrix = None
               THEN [c EXCEPT !.pc = "done", !.out = Raise(NoInverseMsg)]
               ELSE [c EXCEPT !.pc = "prepare", !.inv = inv_key_matrix]]
    /\ UNCHANGED <<self, heap, seq>>

ConcPrepare(t) ==
    /\ calls[t].pc = "prepare"
    /\ LET c          == calls[t]
           block_size == Shape0(heap[t][1])
           padded     == IF c.method = "encrypt"
                         THEN pad_text(c.text, block_size) ELSE <<>>
           numbers    == IF c.method = "encrypt"
                         THEN text_to_numbers(padded)
                         ELSE text_to_numbers(c.text)
       IN  calls' = [calls EXCEPT ![t] =
               [c EXCEPT !.pc = "loop", !.padded = padded,
                         !.text_numbers = numbers,
                         !.blocks = create_text_blocks(numbers, block_size),
                         !.i = 1, !.out_blocks = <<>>, !.numbers = <<>>]]
    /\ UNCHANGED <<self, heap, seq>>

\* variant: the list of result numbers is one list shared by the calls
extend_SharedList(c, t, block) ==
    [u \in Threads |-> [c[u] EXCEPT !.numbers = @ \o block]]

\* encrypted_numbers.extend(block): the list is a local of the call
extend(c, t, block) == [c EXCEPT ![t].numbers = @ \o block]

\* one iteration of `for i, block in enumerate(blocks)`
ConcBlock(t) ==
    /\ calls[t].pc = "loop"
    /\ calls[t].i <= Len(calls[t].blocks)
    /\ LET c      == calls[t]
           matrix == IF c.method = "encrypt" THEN heap[t][1] ELSE c.inv[1]
           block  == DotMod(matrix, c.blocks[c.i])
       IN  calls' = extend([calls EXCEPT ![t].out_blocks = Append(@, block),
                                         ![t].i = @ + 1],
                           t, block)
    /\ UNCHANGED <<self, heap, seq>>

ConcFinish(t) ==
    /\ calls[t].pc = "loop"
    /\ calls[t].i > Len(calls[t].blocks)
    /\ LET c == calls[t]
       IN  calls' = [calls EXCEPT ![t] =
               [c EXCEPT !.pc = "done",
                         !.out = [raised |-> "", returned |-> TRUE,
                                  text |-> numbers_to_text(c.numbers),
                                  padded_text |-> c.padded,
                                  text_numbers |-> c.text_numbers,
                                  key_matrix |-> heap[t],
                                  inverse_key_matrix |-> c.inv,
                                  blocks |-> c.blocks,
                                  out_blocks |-> c.out_blocks,
                                  final_numbers |-> c.numbers]]]
    /\ UNCHANGED <<self, heap, seq>>

\* the caller has taken the result; the locals and the array are dropped
ConcReturn(t) ==
    /\ calls[t].pc = "done"
    /\ calls' = [calls EXCEPT ![t] = IdleFrame]
    /\ heap' = [heap EXCEPT ![t] = None]
    /\ UNCHANGED <<self, seq>>

ConcNext ==
    \/ \E t \in Threads : \E method \in Methods, s \in ConcTexts(t),
                              K \in ConcKeys(t) : ConcCall(t, method, s, K)
    \/ \E t \in Threads : ConcValidate(t)
    \/ \E t \in Threads : ConcInvert(t)
    \/ \E t \in Threads : ConcPrepare(t)
    \/ \E t \in Threads : ConcBlock(t)
    \/ \E t \in Threads : ConcFinish(t)
    \/ \E t \in Threads : ConcReturn(t)

ConcSpec == Init /\ [][ConcNext]_vars

-----------------------------------------------------------------------------
(* The engines of src/backend: class HillCipher of hillcipher.py with the   *)
(* handlers of app.py, and class HillCipher of hill_cypher.py with its      *)
(* module functions.  One call at a time, as above.                         *)

\* self.m of hillcipher.py
web_m == 26

WebNotInvertibleMsg == "Matrix not invertible mod 26"

\* hillcipher.py, _is_invertible
web_is_invertible(K) ==
    LET det == Det(K) % web_m
    IN  MathGcd(det, web_m) = 1

\* hillcipher.py, _egcd
RECURSIVE web_egcd(_, _)
web_egcd(a, b) ==
    IF a = 0 THEN <<b, 0, 1>>
    ELSE LET r == web_egcd(PyMod(b, a), a)
         IN  <<r[1], r[3] - PyFloorDiv(b, a) * r[2], r[2]>>

\* hillcipher.py, _modinv; None stands for raise ValueError("No inverse")
web_modinv(a, m) ==
    LET r == web_egcd(a % m, m)
    IN  IF r[1] # 1 THEN None ELSE Some(r[2] % m)

\* np.round(p / q) for integers p, q with q odd: the quotient is never half
\* way between two integers, and it is at least 1/(2|q|) away from it
RoundDiv(p, q) == PyFloorDiv(2 * p + q, 2 * q)

\* hillcipher.py, _matrix_inv, for a key the constructor accepted:
\* np.linalg.inv(K) is Adjugate(K) / Det(K), and it is multiplied by the
\* determinant already reduced mod 26
web_matrix_inv(K) ==
    LET det     == Det(K) % web_m
        inv_det == web_modinv(det, web_m)
        adj     == [i \in 1..Len(K) |-> [j \in 1..Len(K) |->
                       RoundDiv(det * Adjugate(K)[i][j], Det(K))]]
    IN  [i \in 1..Len(K) |-> [j \in 1..Len(K) |->
            (inv_det[1] * adj[i][j]) % web_m]]

\* the keys given to the engines of src/backend
BackendKeys ==
    Keys2 \cup {Key2Demo, Key2Long, Key2Even, Key2Neg, Key3Demo, Key3Even,
                Key3Neg}

\* HillCipher(K)._matrix_inv(), as decrypt of hillcipher.py calls it
WebMatrixInv(K) ==
    /\ Idle
    /\ op' = "hillcipher._matrix_inv"
    /\ key' = Some(K)
    /\ out' = IF ~ web_is_invertible(K)
              THEN [raised |-> WebNotInvertibleMsg]
              ELSE [raised |-> "", value |-> web_matrix_inv(K)]
    /\ text' = <<>> /\ num' = 0 /\ plain' = None /\ gen' = GenIdle
    /\ UNCHANGED conc

\* the names an object of class HillCipher of hillcipher.py has: the fields
\* set by __init__ and the methods the class defines
WebAttributes ==
    {"key_matrix", "n", "m", "__init__", "_is_invertible", "_modinv", "_egcd",
     "_matrix_inv", "_text_to_nums", "_nums_to_text", "_pad", "encrypt",
     "decrypt"}

NoTextToNumbersMsg == "'HillCipher' object has no attribute '_text_to_numbers'"

NoNumbersToTextMsg == "'HillCipher' object has no attribute '_numbers_to_text'"

NoLettersMsg == "Plaintext must contain alphabetic characters (A-Z) only."

\* text.upper().replace(" ", "")
UpperNoSpaces(t) ==
    SelectSeq([i \in 1..Len(t) |-> UpperChar(t[i])], LAMBDA c : c # OrdSpace)

\* hillcipher.py, encrypt: self._text_to_numbers and self._numbers_to_text
\* are looked up on the object; a name it does not have raises AttributeError
web_encrypt(t, K) ==
    LET stripped == UpperNoSpaces(t)
    IN  IF "_text_to_numbers" \notin WebAttributes
        THEN [raised |-> NoTextToNumbersMsg]
        ELSE [raised |-> NoNumbersToTextMsg]

\* app.py, encrypt: the handler of /api/encrypt; every exception of the try
\* block becomes the answer {"error": str(e)}
api_encrypt(plaintext, K) ==
    IF ~ web_is_invertible(K)
    THEN [raised |-> "", kind |-> "error", value |-> WebNotInvertibleMsg]
    ELSE IF ~ \E i \in 1..Len(plaintext) : IsAlpha(plaintext[i])
    THEN [raised |-> "", kind |-> "error", value |-> NoLettersMsg]
    ELSE LET r == web_encrypt(plaintext, K)
         IN  IF r.raised # ""
             THEN [raised |-> "", kind |-> "error", value |-> r.raised]
             ELSE [raised |-> "", kind |-> "result", value |-> r.value]

\* the keys given together with a text
BackendTextKeys == {Key2Demo, Key2Long, Key2Even, Key3Demo}

ApiEncrypt(s, K) ==
    /\ Idle
    /\ op' = "api.encrypt"
    /\ text' = s
    /\ key' = Some(K)
    /\ out' = api_encrypt(s, K)
    /\ num' = 0 /\ plain' = None /\ gen' = GenIdle
    /\ UNCHANGED conc

HcNotInvertibleMsg == "Key matrix is not invertible modulo 26"

\* hill_cypher.py, _is_invertible
hc_is_invertible(K) ==
    LET det == Det(K) % 26
    IN  MathGcd(det, 26) = 1

\* hill_cypher.py, _text_to_numbers
hc_text_to_numbers(t) ==
    LET stripped == UpperNoSpaces(t)
        letters  == SelectSeq(stripped, IsAlpha)
    IN  [i \in 1..Len(letters) |-> letters[i] - OrdA]

\* hill_cypher.py, _numbers_to_text
hc_numbers_to_text(numbers) == [i \in 1..Len(numbers) |-> numbers[i] + OrdA]

\* hill_cypher.py, _pad_text, for a key of n rows
RECURSIVE hc_pad_text(_, _)
hc_pad_text(numbers, n) ==
    IF Len(numbers) % n # 0 THEN hc_pad_text(Append(numbers, 23), n)
    ELSE numbers

\* (self.key_matrix @ block) % self.alphabet_size
hc_block(K, block) ==
    [i \in 1..Len(K) |->
        SumTo([j \in 1..Len(block) |-> K[i][j] * block[j]], Len(block)) % 26]

\* the blocks numbers[i:i+n] for i in range(0, len(numbers), n), encrypted
RECURSIVE hc_encrypt_from(_, _, _)
hc_encrypt_from(numbers, K, i) ==
    IF i >= Len(numbers) THEN <<>>
    ELSE hc_block(K, PySlice(numbers, i, i + Len(K)))
             \o hc_encrypt_from(numbers, K, i + Len(K))

\* hill_cypher.py, encrypt
hc_encrypt(plaintext, K) ==
    LET numbers == hc_pad_text(hc_text_to_numbers(plaintext), Len(K))
    IN  hc_numbers_to_text(hc_encrypt_from(numbers, K, 0))

\* HillCipher(K).encrypt(s) of hill_cypher.py
HcEncrypt(s, K) ==
    /\ Idle
    /\ op' = "hill_cypher.encrypt"
    /\ text' = s
    /\ key' = Some(K)
    /\ out' = IF ~ hc_is_invertible(K)
              THEN [raised |-> HcNotInvertibleMsg]
              ELSE [raised |-> "", value |-> hc_encrypt(s, K)]
    /\ num' = 0 /\ plain' = None /\ gen' = GenIdle
    /\ UNCHANGED conc

\* hill_cypher.py, validate_key_matrix: the first component of its result
validate_key_matrix(matrix) == hc_is_invertible(matrix)

\* generate_random_key(size) of hill_cypher.py is called
HcGenStart(size) ==
    /\ Idle
    /\ op' = "hill_cypher.generate_random_key"
    /\ gen' = [pc |-> "loop", size |-> size, attempts |-> 0, result |-> None]
    /\ out' = NoOut
    /\ key' = None /\ text' = <<>> /\ num' = 0 /\ plain' = None
    /\ UNCHANGED conc

\* one iteration of `while True`; attempts counts the samples drawn so far,
\* and the loop is followed for MaxDraws samples
HcGenAttempt(M) ==
    /\ op = "hill_cypher.generate_random_key"
    /\ gen.pc = "loop"
    /\ gen.attempts < MaxDraws
    /\ IF validate_key_matrix(M)
       THEN gen' = [gen EXCEPT !.pc = "done", !.attempts = @ + 1,
                               !.result = Some(M)]
       ELSE gen' = [gen EXCEPT !.attempts = @ + 1]
    /\ UNCHANGED <<op, key, text, num, plain, out>>
    /\ UNCHANGED conc

\* app.py, generate_key: the handler of /api/generate-key is called
ApiGenStart(size) ==
    /\ Idle
    /\ op' = "api.generate_key"
    /\ gen' = [pc |-> "loop", size |-> size, attempts |-> 0, result |-> None]
    /\ out' = NoOut
    /\ key' = None /\ text' = <<>> /\ num' = 0 /\ plain' = None
    /\ UNCHANGED conc

\* one iteration of `for _ in range(100)`: HillCipher(matrix) raises for a
\* matrix that is not invertible, and the loop continues
ApiGenAttempt(M) ==
    /\ op = "api.generate_key"
    /\ gen.pc = "loop"
    /\ gen.attempts < 100
    /\ IF web_is_invertible(M)
       THEN gen' = [gen EXCEPT !.pc = "done", !.attempts = @ + 1,
                               !.result = Some(M)]
       ELSE gen' = [gen EXCEPT !.attempts = @ + 1]
    /\ UNCHANGED <<op, key, text, num, plain, out>>
    /\ UNCHANGED conc

\* the matrix answered after the loop
api_fallback(size) ==
    IF size = 2 THEN << <<3, 2>>, <<5, 7>> >>
    ELSE << <<6, 24, 1>>, <<13, 16, 10>>, <<20, 17, 15>> >>

ApiGenFallback ==
    /\ op = "api.generate_key"
    /\ gen.pc = "loop"
    /\ gen.attempts = 100
    /\ gen' = [gen EXCEPT !.pc = "done", !.result = Some(api_fallback(gen.size))]
    /\ UNCHANGED <<op, key, text, num, plain, out>>
    /\ UNCHANGED conc

BackendNext ==
    \/ Idle /\ \E K \in BackendKeys : WebMatrixInv(K)
    \/ Idle /\ \E s \in TextStrings, K \in BackendTextKeys : ApiEncrypt(s, K)
    \/ Idle /\ \E s \in TextStrings, K \in BackendTextKeys : HcEncrypt(s, K)
    \/ Idle /\ \E size \in Sizes : HcGenStart(size)
    \/ gen.pc = "loop" /\ \E M \in Samples(gen.size) : HcGenAttempt(M)
    \/ Idle /\ \E size \in Sizes : ApiGenStart(size)
    \/ gen.pc = "loop" /\ \E M \in Samples(gen.size) : ApiGenAttempt(M)
    \/ ApiGenFallback
    \/ Return

BackendSpec == Init /\ [][BackendNext]_vars

-----------------------------------------------------------------------------
(* Vocabulary of the properties, stated without the engine's operators *)

CeilDiv(a, b) == (a + b - 1) \div b

\* d and alphabet_size have no common divisor above 1
CoprimeTo26(d) == \A k \in 2..26 : ~ (d % k = 0 /\ 26 % k = 0)

\* the A-Z letters of the uppercased string, in order
LettersAZ(s) ==
    SelectSeq([i \in 1..Len(s) |-> IF s[i] \in 97..122 THEN s[i] - 32 ELSE s[i]],
              LAMBDA c : c \in 65..90)

IsLetterOrSpace(c) == c \in 65..90 \/ c \in 97..122 \/ c = 32

Xs(k) == [i \in 1..k |-> 88]

\* str.rstrip('X')
RECURSIVE RStripX(_)
RStripX(s) ==
    IF s # <<>> /\ s[Len(s)] = 88 THEN RStripX(SubSeq(s, 1, Len(s) - 1)) ELSE s

IsSquare(M) == \A i \in 1..Len(M) : Len(M[i]) = Len(M)

\* the key is square and its determinant is a unit mod 26
UnitKey(M) == IsSquare(M) /\ CoprimeTo26(Det(M) % 26)

RoundTripDone == op = "decrypt" /\ plain # None

-----------------------------------------------------------------------------
(* Properties *)

\* C1: round trip: for a valid key and a plaintext with at least one A-Z
\* letter, decrypt(encrypt(S, K)[0], K)[0] is the uppercased letters of S in
\* order followed by zero or more 'X'.
C1_RoundTrip ==
    (RoundTripDone /\ LettersAZ(plain[1]) # <<>>) =>
        /\ out.returned
        /\ \E k \in 0..Len(out.text) : out.text = LettersAZ(plain[1]) \o Xs(k)

\* C2: for a key that passes is_valid_key_matrix, decrypt never fails with
\* 'Cannot find inverse of key matrix'.
C2_InverseAlwaysFound ==
    (op = "decrypt" /\ is_valid_key_matrix(key[1])) => out.raised # NoInverseMsg

\* C3: for a valid 2x2 or 3x3 key K, whenever matrix_mod_inverse(K) returns a
\* matrix invKey (also as the inverse_key_matrix of the decrypt trace),
\* (K . invKey) mod 26 is the identity matrix.
C3_InverseTimesKeyIsIdentity ==
    /\ (op = "matrix_mod_inverse" /\ UnitKey(key[1]) /\ Len(key[1]) \in {2, 3}
            /\ out.value # None)
          => MatMulMod(key[1], out.value[1]) = Eye(Len(key[1]))
    /\ (op = "decrypt" /\ out.returned /\ Len(key[1]) \in {2, 3})
          => MatMulMod(key[1], out.inverse_key_matrix[1]) = Eye(Len(key[1]))

C3_Witness ==
    /\ op = "matrix_mod_inverse"
    /\ key = Some(Key3Demo)
    /\ out.value # None

\* C4: for a valid n x n key and a plaintext with L A-Z letters, the
\* ciphertext of encrypt has exactly n*ceil(L/n) letters.
C4_CiphertextCoversEveryLetter ==
    (op = "encrypt" /\ out.returned) =>
        Len(out.text) =
            Len(key[1]) * CeilDiv(Len(LettersAZ(text)), Len(key[1]))

\* C5: for a square integer matrix M, is_valid_key_matrix(M) is true exactly
\* when gcd(det(M) mod 26, 26) = 1; [[3,2],[5,7]] is valid and [[2,4],[6,8]]
\* is invalid.
C5_ValidIffDetIsUnit ==
    (op = "is_valid_key_matrix" /\ IsSquare(key[1])) =>
        /\ out.value <=> CoprimeTo26(Det(key[1]) % 26)
        /\ key[1] = << <<3, 2>>, <<5, 7>> >> => out.value
        /\ key[1] = << <<2, 4>>, <<6, 8>> >> => ~ out.value

C5_Witness ==
    /\ op = "is_valid_key_matrix"
    /\ IsSquare(key[1])
    /\ Det(key[1]) = 13
    /\ out.value = FALSE

\* C6: encrypt and decrypt called with a key that is not square or whose
\* determinant is not a unit mod 26 fail with the invalid-key error, transform
\* no block, return no text and no trace, and use no other key.
C6_InvalidKeyRejected ==
    (op \in {"encrypt", "decrypt"} /\ ~ UnitKey(key[1])) =>
        /\ out.raised = "Invalid key matrix: not invertible mod 26"
        /\ ~ out.returned
        /\ out.text = <<>>
        /\ out.blocks = <<>> /\ out.out_blocks = <<>>
        /\ out.key_matrix = None

C6_Witness ==
    /\ op = "encrypt"
    /\ key = Some(NonSquare23)
    /\ text # <<>>
    /\ out.raised = InvalidKeyMsg

\* C7: mod_inverse(a, 26), for every integer a: when gcd(a mod 26, 26) = 1 it
\* returns x in [0, 26) with a*x = 1 mod 26, otherwise it returns None.
C7_ModInverse ==
    op = "mod_inverse" =>
        IF CoprimeTo26(num % 26)
        THEN /\ out.value # None
             /\ out.value[1] \in 0..25
             /\ (num * out.value[1]) % 26 = 1
        ELSE out.value = None

\* C8: generate_random_key_matrix(n), n in {2,3,4}, returns for every outcome
\* of the samples an n x n matrix for which is_valid_key_matrix is true.
C8_GeneratedKeyIsValid ==
    (op = "generate_random_key_matrix" /\ gen.pc = "done") =>
        /\ gen.result # None
        /\ Len(gen.result[1]) = gen.size
        /\ UnitKey(gen.result[1])

C8_Witness ==
    /\ gen.pc = "done"
    /\ gen.size = 4
    /\ gen.attempts = 100
    /\ gen.result = Some(FallbackKey(4))

\* C9: for a valid 2x2 or 3x3 key and a plaintext of letters and spaces only,
\* the round trip result without its trailing 'X' is the plaintext uppercased
\* with its spaces removed.
C9_RoundTripAsTested ==
    (RoundTripDone /\ Len(key[1]) \in {2, 3}
        /\ \A i \in 1..Len(plain[1]) : IsLetterOrSpace(plain[1][i])) =>
        /\ out.returned
        /\ RStripX(out.text) = LettersAZ(plain[1])

\* C10: text_to_numbers(text) returns integers in [0,25] only: the codes of
\* the A-Z letters of the uppercased text in order; every other character
\* contributes nothing.
C10_TextToNumbers ==
    op = "text_to_numbers" =>
        /\ \A i \in 1..Len(out.value) : out.value[i] \in 0..25
        /\ out.value = [i \in 1..Len(LettersAZ(text)) |-> LettersAZ(text)[i] - 65]

\* C11: numbers_to_text(numbers) takes each integer modulo 26 before the
\* lookup: for every integer k, also k < 0 and k > 25, the output character is
\* the letter with code k mod 26, and the call never fails.
C11_NumbersToTextWraps ==
    op = "numbers_to_text" =>
        /\ out.raised = ""
        /\ out.value = [i \in 1..Len(text) |-> 65 + (text[i] % 26)]

\* C12: is_valid_key_matrix(M) returns false for every r x c matrix with
\* r # c, whatever its entries, and does not raise.
C12_NonSquareInvalid ==
    (op = "is_valid_key_matrix" /\ ~ IsSquare(key[1])) =>
        /\ out.value = FALSE
        /\ out.raised = ""

C12_Witness ==
    /\ op = "is_valid_key_matrix"
    /\ Len(key[1]) = 3 /\ Len(key[1][1]) = 2
    /\ key[1][1][1] = 1 /\ key[1][2][2] = 1
    /\ out.value = FALSE

\* C13: decrypt never pads and never strips: for a valid key of side n whose
\* inverse is computed and a ciphertext with L letters, decrypt returns
\* without error a plaintext of exactly n*floor(L/n) letters; the first
\* n*floor(L/n) letters are transformed block by block with the inverse key,
\* the trailing L mod n letters are ignored and trailing 'X' are kept.
C13_DecryptTruncates ==
    (op = "decrypt" /\ UnitKey(key[1])
        /\ matrix_mod_inverse(key[1]) # None) =>
        LET n     == Len(key[1])
            codes == [i \in 1..Len(LettersAZ(text)) |-> LettersAZ(text)[i] - 65]
            full  == n * (Len(codes) \div n)
            inv   == out.inverse_key_matrix[1]
        IN  /\ out.returned /\ out.raised = ""
            /\ Len(out.text) = full
            /\ \A p \in 1..full :
                   LET b == (p - 1) \div n
                       i == ((p - 1) % n) + 1
                   IN  out.text[p] =
                         65 + (SumTo([j \in 1..n |-> inv[i][j] * codes[b * n + j]], n)
                                 % 26)

C13_Witness ==
    /\ op = "decrypt"
    /\ out.returned
    /\ Len(key[1]) = 3
    /\ Len(LettersAZ(text)) = 4
    /\ Len(out.text) = 3
    /\ out.text[3] = 88

\* C14: block transform of encrypt: for a valid n x n key K and a plaintext
\* of letters whose length is a multiple of n, the i-th group of n ciphertext
\* letters is the decoding of (K . b_i) mod 26, b_i the i-th group of n
\* plaintext codes; cipher blocks come in the order of the plaintext blocks
\* and each depends only on K and its own plaintext block.
C14_BlockTransform ==
    (op = "encrypt" /\ UnitKey(key[1])
        /\ (\A p \in 1..Len(text) : text[p] \in 65..90 \/ text[p] \in 97..122)
        /\ Len(text) % Len(key[1]) = 0) =>
        LET n     == Len(key[1])
            K     == key[1]
            codes == [p \in 1..Len(text) |-> LettersAZ(text)[p] - 65]
        IN  /\ out.returned
            /\ Len(out.text) = Len(text)
            /\ \A p \in 1..Len(text) :
                   LET b == (p - 1) \div n
                       i == ((p - 1) % n) + 1
                   IN  out.text[p] =
                         65 + (SumTo([j \in 1..n |-> K[i][j] * codes[b * n + j]], n)
                                 % 26)

C14_Witness ==
    /\ op = "encrypt"
    /\ key = Some(Key2Long)
    /\ text = <<65, 88, 104, 88>>
    /\ out.returned
    /\ Len(out.blocks) = 2

\* the matrices that differ from K by 26 in one entry, or in every entry
Congruent(K) ==
    {[i \in 1..Len(K) |-> [j \in 1..Len(K) |->
          IF <<i, j>> = e THEN K[i][j] + 26 ELSE K[i][j]]] :
        e \in (1..Len(K)) \X (1..Len(K))}
    \cup {[i \in 1..Len(K) |-> [j \in 1..Len(K) |-> K[i][j] + 26]]}

\* C15: key entries are used modulo 26: for square matrices K and K2 of
\* non-negative integers that agree entrywise mod 26 and every string S,
\* is_valid_key_matrix agrees on them, encrypt(S, K) and encrypt(S, K2) give
\* the same ciphertext or both fail, and so do decrypt(S, K) and
\* decrypt(S, K2).
C15_KeyEntriesMod26 ==
    /\ (op = "is_valid_key_matrix" /\ IsSquare(key[1])) =>
          \A K2 \in Congruent(key[1]) : is_valid_key_matrix(K2) = out.value
    /\ (op = "encrypt" /\ IsSquare(key[1])) =>
          \A K2 \in Congruent(key[1]) :
              /\ encrypt(text, K2).returned = out.returned
              /\ encrypt(text, K2).text = out.text
    /\ (op = "decrypt" /\ IsSquare(key[1])) =>
          \A K2 \in Congruent(key[1]) :
              /\ decrypt(text, K2).returned = out.returned
              /\ decrypt(text, K2).text = out.text

\* C16: the empty string encrypts to the empty string: for every valid key,
\* encrypt("", K) returns "" without error, adds no padding block, and its
\* trace lists zero blocks.
C16_EmptyEncryptsToEmpty ==
    (op = "encrypt" /\ text = <<>> /\ UnitKey(key[1])) =>
        /\ out.returned /\ out.raised = ""
        /\ out.text = <<>>
        /\ out.padded_text = <<>>
        /\ out.blocks = <<>> /\ out.out_blocks = <<>>
        /\ out.final_numbers = <<>>

C16_Witness ==
    /\ op = "encrypt"
    /\ text = <<>>
    /\ key = Some(Key3Demo)
    /\ out.returned

HelloCase == op = "encrypt" /\ text = <<72, 69, 76, 76, 79>>
                 /\ key = Some(<< <<3, 2>>, <<5, 7>> >>)

HelloPrepared ==
    /\ out.returned
    /\ out.text_numbers = <<7, 4, 11, 11, 14, 23>>
    /\ out.padded_text = <<72, 69, 76, 76, 79, 88>>
    /\ out.blocks = << <<7, 4>>, <<11, 11>>, <<14, 23>> >>
    /\ Len(out.text) = 6

\* C17 as stated: encrypt("HELLO", [[3,2],[5,7]]) encodes to [7,4,11,11,14],
\* pads with one 'X' (23) to length 6, forms the blocks [7,4], [11,11],
\* [14,23], and the first block yields [11,11]: the ciphertext begins with
\* "LL" and has 6 letters.
C17_HelloFixtureAsStated ==
    HelloCase =>
        /\ HelloPrepared
        /\ out.out_blocks[1] = <<11, 11>>
        /\ SubSeq(out.text, 1, 2) = <<76, 76>>

\* C17 amended: the same encoding, padding and blocks, and the first block
\* yields [3,11]: the ciphertext begins with "DL" and has 6 letters.
C17_HelloFixture ==
    HelloCase =>
        /\ HelloPrepared
        /\ out.out_blocks[1] = <<3, 11>>
        /\ SubSeq(out.text, 1, 2) = <<68, 76>>

C17_Witness == HelloCase /\ out.returned /\ Len(out.out_blocks) = 3

\* C18: generate_random_key_matrix(size) terminates on every execution: it
\* tests at most 100 samples, returns the first sample that passes
\* is_valid_key_matrix, and takes the fallback path only after 100 samples in
\* a row were invalid.
C18_GenerateTerminates ==
    /\ [](gen.attempts <= 100)
    /\ [][\A M \in Samples(gen.size) :
            (gen.pc = "loop" /\ GenAttempt(M) /\ UnitKey(M)) =>
                (gen'.pc = "done" /\ gen'.result = Some(M))]_vars
    /\ [][(gen.pc = "loop" /\ gen'.pc = "done" /\ gen'.attempts = gen.attempts)
            => gen.attempts = 100]_vars
    /\ (gen.pc = "loop") ~> (gen.pc = "done")

C18_Witness ==
    /\ gen.pc = "done"
    /\ gen.size = 2
    /\ gen.attempts = 57
    /\ gen.result = Some(Key2Long)

\* the fallback matrices as the claim lists them
ListedFallback(n) ==
    IF n = 2 THEN << <<3, 2>>, <<5, 7>> >>
    ELSE IF n = 3 THEN << <<6, 24, 1>>, <<13, 16, 10>>, <<20, 17, 15>> >>
    ELSE [i \in 1..n |-> [j \in 1..n |->
             IF i # j THEN 0 ELSE IF i = 1 THEN 3 ELSE IF i = 2 THEN 5 ELSE 1]]

\* C19: when all 100 samples are invalid, generate_random_key_matrix returns
\* for every n >= 2 one fixed n x n matrix that does not depend on the samples
\* and passes is_valid_key_matrix: [[3,2],[5,7]], the listed 3x3 matrix, and
\* for n >= 4 the identity with (0,0) = 3 and (1,1) = 5, of determinant 15.
C19_FallbackIsFixedAndValid ==
    [][(gen.pc = "loop" /\ gen.attempts = 100) =>
          /\ gen'.pc = "done"
          /\ gen'.result = Some(ListedFallback(gen.size))
          /\ UnitKey(gen'.result[1])
          /\ gen.size >= 4 => Det(gen'.result[1]) = 15]_vars

C19_Witness ==
    /\ gen.pc = "done"
    /\ gen.size = 5
    /\ gen.attempts = 100
    /\ gen.result = Some(ListedFallback(5))

\* what the call of a frame returns when it is the only call running
Alone(c) ==
    IF c.method = "is_valid_key_matrix"
    THEN [raised |-> "", value |-> is_valid_key_matrix(c.key[1])]
    ELSE IF c.method = "encrypt" THEN encrypt(c.text, c.key[1])
    ELSE decrypt(c.text, c.key[1])

\* C20: calls of is_valid_key_matrix, encrypt and decrypt on one object share
\* no mutable state: in every interleaving of two calls with different keys
\* and texts, a finished call holds the result it returns when run alone, a
\* call in its loop has produced the leading numbers of that result, the key
\* matrix a call was given is unchanged, and so are the fields alphabet_size
\* and alphabet of the object.
C20_CallsDoNotInterfere ==
    /\ self.alphabet_size = 26
    /\ self.alphabet = "ABCDEFGHIJKLMNOPQRSTUVWXYZ"
    /\ \A t \in Threads :
        LET c == calls[t]
        IN  /\ c.pc # "idle" => heap[t] = c.key
            /\ c.pc = "done" => c.out = Alone(c)
            /\ c.pc = "loop" =>
                 /\ Alone(c).returned
                 /\ c.numbers = SubSeq(Alone(c).final_numbers, 1,
                                       (c.i - 1) * Len(c.key[1]))

\* both calls are inside their loops, each with a block done: the first has
\* done all of its three blocks, the second decrypts
C20_Witness ==
    /\ calls[1].pc = "loop" /\ calls[1].method = "encrypt"
    /\ calls[1].text = Hello /\ calls[1].i = 4
    /\ calls[2].pc = "loop" /\ calls[2].method = "decrypt"
    /\ calls[2].i = 2 /\ Len(calls[2].blocks) = 2

\* d divides n
Divides(d, n) == n % d = 0

\* g is the greatest common divisor of a and b
IsGcdOf(g, a, b) ==
    /\ g > 0
    /\ Divides(g, a) /\ Divides(g, b)
    /\ \A d \in 1..(a + b) : (Divides(d, a) /\ Divides(d, b)) => d <= g

\* C21: for all non-negative integers a, b not both zero, gcd_extended(a, b)
\* terminates (it makes at most a + 1 calls of itself) and returns (g, x, y)
\* with g the greatest common divisor of a and b, g > 0, and a*x + b*y = g.
C21_ExtendedEuclid ==
    (op = "gcd_extended" /\ text # <<0, 0>>) =>
        LET a == text[1]
            b == text[2]
            r == out.value
        IN  /\ out.calls <= a + 1
            /\ IsGcdOf(r[1], a, b)
            /\ a * r[2] + b * r[3] = r[1]

C21_Witness ==
    /\ op = "gcd_extended"
    /\ text = <<10, 4>>
    /\ out.value = <<2, 1, 0 - 2>>
    /\ out.calls = 4

\* C22: encrypt and decrypt report every failure (invalid key, no inverse of
\* the key) as a returned error value: no call of them ends by raising an
\* exception into its caller.
C22_FailuresAreReturned ==
    op \in {"encrypt", "decrypt"} => (out.raised = "" /\ out.returned)

\* C23: for every key K accepted by the constructor of hillcipher.py,
\* including keys whose determinant lies outside [0, 25], _matrix_inv()
\* returns a matrix inv with (K . inv) mod 26 equal to the identity.
C23_WebInverseIsInverse ==
    (op = "hillcipher._matrix_inv" /\ out.raised = "") =>
        MatMulMod(key[1], out.value) = Eye(Len(key[1]))

\* C24: for every key accepted by the constructor of hillcipher.py and every
\* plaintext with at least one letter, the /api/encrypt handler answers with a
\* result (the ciphertext), not with an error.
C24_WebEncryptAnswers ==
    (/\ op = "api.encrypt"
     /\ UnitKey(key[1])
     /\ \E i \in 1..Len(text) : text[i] \in (65..90) \cup (97..122)) =>
        out.kind = "result"

\* C25: for every valid square key K and every string S (letters mixed with
\* spaces, digits or punctuation), encrypt of hill_cypher.py and encrypt of
\* cipher.py return the same ciphertext.
C25_EnginesEncryptAlike ==
    (op = "hill_cypher.encrypt" /\ UnitKey(key[1])) =>
        /\ out.raised = ""
        /\ out.value = encrypt(text, key[1]).text

\* C26: generate_random_key(size) of hill_cypher.py makes at most 100
\* sampling attempts and then returns a matrix, also when every sampled
\* matrix is invalid.
C26_AtMostHundredSamples ==
    op = "hill_cypher.generate_random_key" => gen.attempts <= 100

\* C27: the /api/generate-key handler returns, for every size n >= 2 and every
\* outcome of its 100 samples, all samples invalid included, an n x n matrix
\* that the constructor of hillcipher.py accepts.
C27_ApiKeyHasSizeAndIsValid ==
    (op = "api.generate_key" /\ gen.pc = "done") =>
        /\ gen.result # None
        /\ Len(gen.result[1]) = gen.size
        /\ \A i \in 1..Len(gen.result[1]) : Len(gen.result[1][i]) = gen.size
        /\ CoprimeTo26(Det(gen.result[1]) % 26)

====
